---------------------------- MODULE Spec2Model ----------------------------
(***************************************************************************)
(* afterpkg: the dependency resolver (DependencyManager), the wave         *)
(* scheduler (start_build_engine), the build bots (bot_thread) and the     *)
(* console thread (console_thread) of src/afterpkg.py.                     *)
(*                                                                         *)
(* Package names are the integers 1..NumNames; the integer is the rank of  *)
(* the name in lexicographic order.  README and EMPTY are the two entries  *)
(* of DependencyManager.ignore ("%README%" and "").  A queue item is a     *)
(* tuple: <<p>> carries the package p, <<>> is Python's None.              *)
(***************************************************************************)
EXTENDS Integers, Sequences, FiniteSets, TLC

\* ------------------------------------------------------------- bounds
NumNames == 3
MaxRequires == 2
MaxTargets == 2
NumThreads == 2
MaxDownloads == 1
MaxConsole == 1

\* ---------------------------------------------------------- constants
README == 0
EMPTY == -1

Names == 1..NumNames
ignore == {README, EMPTY}
None == <<>>
Some(p) == <<p>>
\* The items of console_q: a (text, package, bot_index) line, and the
\* (None, None, None) that ends console_thread.
Line == "line"
Terminator == "terminator"

VARIABLES
    args,             \* the parsed command line (argparse namespace)
    package_dirs,     \* DependencyManager.package_dirs: the names with a recipe
    REQUIRES,         \* read_info(<pkg>.info)["REQUIRES"], per name
    slack_pkg_local,  \* DependencyManager.slack_pkg_local
    pypi_local_py2,   \* the names whose index name (sbo_to_pypi) is in DependencyManager.pypi_local_py2
    pypi_local_py3,   \* the names whose index name (sbo_to_pypi) is in DependencyManager.pypi_local_py3
    script_files,     \* per kind (before, after, requires): the packages with a <kind>.sh under the scripts location
    resolved,         \* build_packages: the list resolve_dependencies returned
    printed,          \* build_packages: the lines printed under --queue
    main_pc,          \* position of the main thread ("raised": an uncaught exception ended it)
    exit_status,      \* "running", "zero" or "nonzero"
    pending,          \* start_build_engine: pending
    built,            \* start_build_engine: built
    has_error,        \* start_build_engine: has_error
    job_q,            \* start_build_engine: job_q
    done_q,           \* start_build_engine: done_q
    console_q,        \* start_build_engine: console_q
    bot,              \* per bot_index: position, package of the job in hand, wget commands left,
                      \* pip name, checksum state, artifact listing, script of the job
    controller_pc,    \* position of bot_controller_thread
    console_pc,       \* position of console_thread
    INSTALLER_LOCK,   \* the set of holders of INSTALLER_LOCK (at most one)
    DOWNLOAD_LOCK,    \* the set of holders of DOWNLOAD_LOCK (at most one)
    bot_status,       \* the files write_bot_status writes: pending.txt and built.txt
    spawned,          \* the child processes start_build_engine and the bots have started, by kind
    stdout,           \* the number of lines console_thread has written to sys.stdout
    console_put,      \* history: the number of lines put on console_q
    job_log           \* history: the package names put on job_q, in order

inputs == <<args, package_dirs, REQUIRES, slack_pkg_local, pypi_local_py2, pypi_local_py3,
            script_files>>
engine == <<pending, built, has_error, job_q, done_q, console_q, bot,
            controller_pc, console_pc, INSTALLER_LOCK, DOWNLOAD_LOCK, bot_status,
            spawned, stdout, console_put, job_log>>
vars == <<inputs, resolved, printed, main_pc, exit_status, engine>>

\* ------------------------------------------------------------ helpers
Range(s) == {s[i] : i \in 1..Len(s)}
InSeq(x, s) == \E i \in 1..Len(s) : s[i] = x
IndexOf(x, s) == CHOOSE i \in 1..Len(s) : s[i] = x
SeqsUpTo(S, n) == UNION {[1..k -> S] : k \in 0..n}
NoDuplicates(s) == \A i, j \in 1..Len(s) : s[i] = s[j] => i = j

\* ------------------------------------------------- DependencyManager
is_sbo_pkg(pkg) == pkg \in package_dirs

\* sbo_name.startswith("python-") and sbo_name.startswith("python3-"): in
\* lexicographic order the first name is a "python-" one, the second a
\* "python3-" one, the others have no such prefix.
startswith_python(sbo_name) == sbo_name = 1
startswith_python3(sbo_name) == sbo_name = 2

\* has_local_package: pip_pkg is the index name of sbo_name; args.nopip2 and
\* args.nopip3 are read nowhere.
has_local_package(sbo_name) ==
    IF sbo_name \in slack_pkg_local THEN TRUE
    ELSE IF args.novirtual THEN FALSE
    ELSE \/ startswith_python3(sbo_name) /\ sbo_name \in pypi_local_py3
         \/ startswith_python(sbo_name) /\ sbo_name \in pypi_local_py2

\* lookup_deps with its dependencies sorted by name before they are returned.
kept_deps_sorted(pkg, remove_local) ==
    SortSeq(SelectSeq(REQUIRES[pkg],
                      LAMBDA dep : /\ dep \notin ignore
                                   /\ is_sbo_pkg(dep)
                                   /\ ~(remove_local /\ has_local_package(dep))),
            LAMBDA x, y : x < y)

\* lookup_deps without the has_local_package test.
kept_deps_keep_local(pkg, remove_local) ==
    SelectSeq(REQUIRES[pkg], LAMBDA dep : dep \notin ignore /\ is_sbo_pkg(dep))

\* lookup_deps without the "if not self.is_sbo_pkg(dep): continue" test.
kept_deps_keep_unknown(pkg, remove_local) ==
    SelectSeq(REQUIRES[pkg],
              LAMBDA dep : /\ dep \notin ignore
                           /\ ~(remove_local /\ has_local_package(dep)))

\* The dependencies lookup_deps keeps, in the order REQUIRES lists them.
kept_deps(pkg, remove_local) ==
    SelectSeq(REQUIRES[pkg],
              LAMBDA dep : /\ dep \notin ignore
                           /\ is_sbo_pkg(dep)
                           /\ ~(remove_local /\ has_local_package(dep)))

\* found = FALSE is the None that lookup_deps returns for an unknown package.
lookup_deps(pkg, remove_local) ==
    IF pkg \notin package_dirs
    THEN [found |-> FALSE, deps |-> <<>>]
    ELSE [found |-> TRUE, deps |-> kept_deps(pkg, remove_local)]

\* _resolve_dependencies without the "if package_name in resolved: continue" test.
RECURSIVE _resolve_dependencies_no_seen(_, _, _)
_resolve_dependencies_no_seen(package_names, st, remove_local) ==
    IF package_names = <<>> \/ st.exited THEN st
    ELSE LET r == lookup_deps(Head(package_names), remove_local)
         IN  IF ~r.found
             THEN [st EXCEPT !.exited = TRUE]
             ELSE LET st1 == _resolve_dependencies_no_seen(r.deps, st, remove_local)
                  IN  IF st1.exited THEN st1
                      ELSE _resolve_dependencies_no_seen(
                               Tail(package_names),
                               [st1 EXCEPT !.resolved = Append(@, Head(package_names))],
                               remove_local)

\* _resolve_dependencies appending the package before it recurses into its
\* dependencies.
RECURSIVE _resolve_dependencies_append_first(_, _, _)
_resolve_dependencies_append_first(package_names, st, remove_local) ==
    IF package_names = <<>> \/ st.exited THEN st
    ELSE IF InSeq(Head(package_names), st.resolved)
    THEN _resolve_dependencies_append_first(Tail(package_names), st, remove_local)
    ELSE LET r == lookup_deps(Head(package_names), remove_local)
         IN  IF ~r.found
             THEN [st EXCEPT !.exited = TRUE]
             ELSE LET st1 == _resolve_dependencies_append_first(
                                 r.deps,
                                 [st EXCEPT !.resolved = Append(@, Head(package_names))],
                                 remove_local)
                  IN  IF st1.exited THEN st1
                      ELSE _resolve_dependencies_append_first(
                               Tail(package_names), st1, remove_local)

\* st = [resolved, exited]: the list being filled, and whether sys.exit(1) was
\* reached (nothing runs after it).
RECURSIVE _resolve_dependencies(_, _, _)
_resolve_dependencies(package_names, st, remove_local) ==
    IF package_names = <<>> \/ st.exited THEN st
    ELSE LET package_name == Head(package_names)
             rest == Tail(package_names)
         IN  IF InSeq(package_name, st.resolved)
             THEN _resolve_dependencies(rest, st, remove_local)
             ELSE LET r == lookup_deps(package_name, remove_local)
                  IN  IF ~r.found
                      THEN [st EXCEPT !.exited = TRUE]
                      ELSE LET st1 == IF r.deps # <<>>
                                      THEN _resolve_dependencies(r.deps, st, remove_local)
                                      ELSE st
                           IN  IF st1.exited THEN st1
                               ELSE _resolve_dependencies(
                                        rest,
                                        [st1 EXCEPT !.resolved = Append(@, package_name)],
                                        remove_local)

resolve_dependencies(package_names, remove_local) ==
    _resolve_dependencies(package_names, [resolved |-> <<>>, exited |-> FALSE], remove_local)

\* ------------------------------------------------------ ScriptManager
\* ScriptManager.__init__: the dictionary of a kind holds the packages with a
\* script of that kind, and stays empty when the option of the kind is set.
ScriptManager(script) == IF args[script] THEN {} ELSE script_files[script]

\* get_before, get_after, get_requires: TRUE for a location, FALSE for None.
get_before(package) == package \in ScriptManager("before")
get_after(package) == package \in ScriptManager("after")
get_requires(package) == package \in ScriptManager("requires")

\* The dependencies whose requires script is read, were they resolved as the
\* build queue is: installed packages left out.
script_dependencies_skip_installed(package) ==
    resolve_dependencies(<<package>>, TRUE).resolved

\* "dep_manager.resolve_dependencies([package], False)"
script_dependencies(package) == resolve_dependencies(<<package>>, FALSE).resolved

\* The pieces of total_script: the first line, and the bytes of a file.
shebang == <<"#!/bin/sh">>
file(kind, package) == <<kind, package>>

\* total_script as bot_thread assembles it for a package.
total_script(package) ==
    <<shebang>>
    \o (IF get_before(package) THEN <<file("before.sh", package)>> ELSE <<>>)
    \o LET deps == SelectSeq(script_dependencies(package),
                             LAMBDA dep_package : /\ dep_package # package
                                                  /\ get_requires(dep_package))
       IN  [k \in 1..Len(deps) |-> file("requires.sh", deps[k])]
    \o <<file("SlackBuild", package)>>
    \o (IF get_after(package) THEN <<file("after.sh", package)>> ELSE <<>>)

\* --------------------------------------------------- the recipe graph
\* The dependency edges of a package: its REQUIRES names that are not a
\* sentinel and have a recipe (installed or not).
Edges(p) == {d \in Range(REQUIRES[p]) : d \notin ignore /\ d \in package_dirs}

RECURSIVE ReachWithin(_, _)
ReachWithin(S, n) ==
    IF n = 0 THEN S
    ELSE ReachWithin(S \cup UNION {Edges(p) : p \in S \cap package_dirs}, n - 1)

\* Everything reachable from the names in S along dependency edges, S included.
Reach(S) == ReachWithin(S, NumNames)

Acyclic == \A p \in package_dirs : p \notin Reach(Edges(p))


\* ------------------------------------------------------ build_packages
Defaults ==
    [numthreads |-> 1, getinparallel |-> FALSE, pipinstall |-> FALSE,
     onlydownload |-> FALSE, donothing |-> FALSE, novirtual |-> FALSE,
     nopip2 |-> FALSE, nopip3 |-> FALSE,
     before |-> FALSE, after |-> FALSE, requires |-> FALSE,
     queue |-> FALSE, packages |-> <<>>]

NoBots == [i \in {} |-> 0]

\* A scripts location without any hook script.
NoScripts == [before |-> {}, after |-> {}, requires |-> {}]

\* The state a run starts in, whatever its inputs: nothing resolved, no thread
\* started, the module-level locks free.
InitRun ==
    /\ resolved = <<>>
    /\ printed = <<>>
    /\ main_pc = "build_packages"
    /\ exit_status = "running"
    /\ pending = <<>>
    /\ built = {}
    /\ has_error = FALSE
    /\ job_q = <<>>
    /\ done_q = <<>>
    /\ console_q = <<>>
    /\ bot = NoBots
    /\ controller_pc = "unstarted"
    /\ console_pc = "unstarted"
    /\ INSTALLER_LOCK = {}
    /\ DOWNLOAD_LOCK = {}
    /\ bot_status = [pending |-> None, built |-> None]
    /\ spawned = {}
    /\ stdout = 0
    /\ console_put = 0
    /\ job_log = <<>>

\* Recipe trees over Names: the names without a recipe have no .info file.
RecipeTrees(pd) ==
    {R \in [Names -> SeqsUpTo(Names \cup {README}, MaxRequires)] :
        \A n \in Names \ pd : R[n] = <<>>}

\* afterpkg --queue <packages>: every recipe tree, Oracle answer and target list
\* within the bounds.
InitQueue ==
    /\ package_dirs \in SUBSET Names
    /\ REQUIRES \in RecipeTrees(package_dirs)
    /\ Acyclic
    /\ slack_pkg_local \in SUBSET Names
    /\ pypi_local_py2 \in SUBSET ({n \in Names : startswith_python(n)} \ slack_pkg_local)
    /\ pypi_local_py3 \in SUBSET ({n \in Names : startswith_python3(n)} \ slack_pkg_local)
    /\ script_files = NoScripts
    /\ args \in {[Defaults EXCEPT !.queue = TRUE, !.packages = t, !.novirtual = v] :
                    t \in SeqsUpTo(Names, MaxTargets) \ {<<>>}, v \in BOOLEAN}
    /\ InitRun

\* build_packages up to the branch on args.queue.
build_packages ==
    /\ main_pc = "build_packages"
    /\ LET r == resolve_dependencies(args.packages, TRUE)
       IN  IF r.exited
           THEN /\ main_pc' = "exited"
                /\ exit_status' = "nonzero"
                /\ UNCHANGED resolved
           ELSE /\ resolved' = r.resolved
                /\ main_pc' = IF args.queue THEN "print_queue" ELSE "start_build_engine"
                /\ UNCHANGED exit_status
    /\ UNCHANGED <<inputs, printed, engine>>

\* build_packages, args.queue set: print the queue, return from main.
print_queue ==
    /\ main_pc = "print_queue"
    /\ printed' = resolved
    /\ main_pc' = "exited"
    /\ exit_status' = "zero"
    /\ UNCHANGED <<inputs, resolved, engine>>

NextQueue == build_packages \/ print_queue

SpecQueue == InitQueue /\ [][NextQueue]_vars

\* The recipe tree "3 requires 1 and 2": a recipe that depends on a "python-"
\* one and on a "python3-" one.
Pythons == [n \in Names |-> IF n = 3 THEN <<1, 2>> ELSE <<>>]

\* afterpkg --queue 3 with every combination of -v, -2 and -3, every set of
\* installed packages and every content of the two pip listings.
InitOracle ==
    /\ package_dirs = Names
    /\ REQUIRES = Pythons
    /\ slack_pkg_local \in SUBSET Names
    /\ pypi_local_py2 \in SUBSET Names
    /\ pypi_local_py3 \in SUBSET Names
    /\ script_files = NoScripts
    /\ args \in {[Defaults EXCEPT !.queue = TRUE, !.packages = <<3>>, !.novirtual = v,
                                  !.nopip2 = p2, !.nopip3 = p3] :
                    v \in BOOLEAN, p2 \in BOOLEAN, p3 \in BOOLEAN}
    /\ InitRun

SpecOracle == InitOracle /\ [][NextQueue]_vars


\* ------------------------------------------------ resolver properties
\* The resolver returned a list (no target was unknown).
ResolverReturned == main_pc = "print_queue"

Before(x, y, s) == IndexOf(x, s) < IndexOf(y, s)

\* The first occurrence of each element of s, in order.
RECURSIVE Dedup(_)
Dedup(s) ==
    IF s = <<>> THEN <<>>
    ELSE LET front == Dedup(SubSeq(s, 1, Len(s) - 1))
         IN  IF InSeq(s[Len(s)], front) THEN front ELSE Append(front, s[Len(s)])

\* The REQUIRES names of p that have a recipe and are not reported installed,
\* as written or in ascending order of name.
Siblings(p, sorted) ==
    LET written == SelectSeq(REQUIRES[p],
                             LAMBDA d : d \in package_dirs /\ ~has_local_package(d))
    IN  IF sorted THEN SortSeq(written, LAMBDA x, y : x < y) ELSE written

\* The depth-first post-order walk from every name of `names` in turn, written
\* out in full (a package is repeated each time it is met).
RECURSIVE Walk(_, _)
Walk(names, sorted) ==
    IF names = <<>> THEN <<>>
    ELSE Walk(Siblings(Head(names), sorted), sorted) \o <<Head(names)>>
         \o Walk(Tail(names), sorted)

PostOrder(targets, sorted) == Dedup(Walk(targets, sorted))

C9_NoDuplicatesReachable ==
    ResolverReturned =>
        /\ NoDuplicates(resolved)
        /\ Range(resolved) \subseteq Reach(Range(args.packages))

C9_Witness ==
    /\ ResolverReturned
    /\ Len(args.packages) = 2
    /\ args.packages[2] \in Reach(Edges(args.packages[1]))
    /\ Len(resolved) = 3


\* ================================================== start_build_engine
Alive == exit_status = "running"
Bots == DOMAIN bot

\* Runner.exec: under donothing the command is only echoed and cannot fail;
\* otherwise Runner.run raises OSError on a non-zero return code.
Outcomes == IF args.donothing THEN {TRUE} ELSE BOOLEAN

\* The local variables of a bot that has no job in hand.
no_job(pc) ==
    [pc |-> pc, package |-> None, todo |-> 0, pypi |-> None, mismatch |-> FALSE,
     out |-> "unset", total_script |-> <<>>]

\* start_build_engine up to the scheduling loop: the working directories of
\* the bots are removed (remote_popen, whatever args.donothing), the console
\* thread, the bot controller and its bots are started, pending is a copy of
\* the resolved list.
start_build_engine ==
    /\ main_pc = "start_build_engine"
    /\ spawned' = spawned \cup {"rm -rf bots"}
    /\ console_pc' = "running"
    /\ controller_pc' = "running"
    /\ bot' = [i \in 0..(args.numthreads - 1) |-> no_job("start")]
    /\ pending' = resolved
    /\ built' = {}
    /\ has_error' = FALSE
    /\ main_pc' = "wave"
    /\ UNCHANGED <<inputs, resolved, printed, exit_status, job_q, done_q, console_q,
                   INSTALLER_LOCK, DOWNLOAD_LOCK, bot_status, stdout, console_put,
                   job_log>>

\* "if set(dep_manager.lookup_deps(package)) - built: continue", with every
\* package queued.
ready_always(package) == TRUE

\* The test made with lookup_deps(package, remove_local=False): installed
\* dependencies are waited for as well.
ready_all_deps(package) == Range(lookup_deps(package, FALSE).deps) \ built = {}

\* "if set(dep_manager.lookup_deps(package)) - built: continue"
ready(package) == Range(lookup_deps(package, TRUE).deps) \ built = {}

\* write_bot_status(ident, value): the file <ident>.txt holds the value.
write_bot_status(status, ident, value) == [status EXCEPT ![ident] = Some(value)]

\* write_bot_status("pending", pending) called before pending is reassigned.
published_pending_untrimmed(before, after) == before

\* The list write_bot_status("pending", pending) is given: pending as it is
\* after "pending = [i for i in pending if i not in queued]".
published_pending(before, after) == after

\* pending left as it was after a wave.
pending_kept(pending_list, queued) == pending_list

\* "pending = [i for i in pending if i not in queued]"
pending_trimmed(pending_list, queued) ==
    SelectSeq(pending_list, LAMBDA p : ~InSeq(p, queued))

\* The write_bot_status call of a wave that raises OSError (the file cannot be
\* opened or written), if any; nothing catches it.
status_raises == {"none", "pending", "built"}

\* One pass of the while loop, up to done_q.get: every ready package of pending
\* is put on job_q in order, pending keeps the others, and the new pending and
\* built are written to the status files.  An OSError of write_bot_status
\* leaves start_build_engine, build_packages and main: the process ends with
\* its traceback and a non-zero status, and the daemon threads with it.
wave ==
    /\ main_pc = "wave"
    /\ LET queued == SelectSeq(pending, ready)
       IN  /\ job_q' = job_q \o [k \in 1..Len(queued) |-> Some(queued[k])]
           /\ job_log' = job_log \o queued
           /\ pending' = pending_trimmed(pending, queued)
    /\ \E raised \in status_raises :
          LET pending_written == write_bot_status(bot_status, "pending",
                                                 published_pending(pending, pending'))
          IN  /\ bot_status' = CASE raised = "pending" -> bot_status
                                  [] raised = "built" -> pending_written
                                  [] OTHER -> write_bot_status(pending_written, "built", built)
              /\ main_pc' = IF raised = "none" THEN "done_get" ELSE "raised"
              /\ exit_status' = IF raised = "none" THEN exit_status ELSE "nonzero"
    /\ UNCHANGED <<inputs, resolved, printed, built, has_error, done_q,
                   console_q, bot, controller_pc, console_pc, INSTALLER_LOCK,
                   DOWNLOAD_LOCK, spawned, stdout, console_put>>

\* "if done is None:" without its break: the loop goes on to its test.
on_failure_no_break == IF pending # <<>> THEN "wave" ELSE "sentinels"

\* "if done is None: ... has_error = True; break"
on_failure == "sentinels"

\* The loop written "while True": another wave whatever is left in pending.
while_true == "wave"

\* The loop test "while pending": another wave, or the end of the loop.
while_pending == IF pending # <<>> THEN "wave" ELSE "sentinels"

\* done = done_q.get(True), then the break on None or built.add(done) and the
\* loop test "while pending".
done_get ==
    /\ main_pc = "done_get"
    /\ done_q # <<>>
    /\ done_q' = Tail(done_q)
    /\ IF Head(done_q) = None
       THEN /\ has_error' = TRUE
            /\ main_pc' = on_failure
            /\ UNCHANGED built
       ELSE /\ built' = built \cup {Head(done_q)[1]}
            /\ main_pc' = while_pending
            /\ UNCHANGED has_error
    /\ UNCHANGED <<inputs, resolved, printed, exit_status, pending, job_q, console_q,
                   bot, controller_pc, console_pc, INSTALLER_LOCK, DOWNLOAD_LOCK,
                   bot_status, spawned, stdout, console_put, job_log>>

\* What follows the sentinels if the main thread joined the bots on every path.
after_sentinels_join == "join_bots"

\* "if has_error: time.sleep(0.5); sys.exit(1)", else bot_controller.join().
after_sentinels == IF has_error THEN "sleep" ELSE "join_bots"

\* One sentinel fewer than there are bots.
sentinels_one_short == [k \in 1..(args.numthreads - 1) |-> None]

\* The items of "for _ in range(int(args.numthreads)): job_q.put(None)"
sentinels == [k \in 1..args.numthreads |-> None]

\* "for _ in range(int(args.numthreads)): job_q.put(None)"
put_sentinels ==
    /\ main_pc = "sentinels"
    /\ job_q' = job_q \o sentinels
    /\ main_pc' = after_sentinels
    /\ UNCHANGED <<inputs, resolved, printed, exit_status, pending, built, has_error,
                   done_q, console_q, bot, controller_pc, console_pc, INSTALLER_LOCK,
                   DOWNLOAD_LOCK, bot_status, spawned, stdout, console_put, job_log>>

\* The end of time.sleep(0.5): sys.exit(1).  The other threads are daemons and
\* end with the process, wherever they are.
exit_on_error ==
    /\ main_pc = "sleep"
    /\ main_pc' = "exited"
    /\ exit_status' = "nonzero"
    /\ UNCHANGED <<inputs, resolved, printed, engine>>

\* bot_controller.join() returns.
join_bots ==
    /\ main_pc = "join_bots"
    /\ controller_pc = "returned"
    /\ main_pc' = "put_terminator"
    /\ UNCHANGED <<inputs, resolved, printed, exit_status, engine>>

\* console_q.put((None, None, None))
put_terminator ==
    /\ main_pc = "put_terminator"
    /\ console_q' = Append(console_q, Terminator)
    /\ main_pc' = "join_console"
    /\ UNCHANGED <<inputs, resolved, printed, exit_status, pending, built, has_error,
                   job_q, done_q, bot, controller_pc, console_pc, INSTALLER_LOCK,
                   DOWNLOAD_LOCK, bot_status, spawned, stdout, console_put, job_log>>

\* start_build_engine returning without console_controller.join().
console_controller_no_join == TRUE

\* console_controller.join(): it returns once console_thread has returned.
console_controller_join == console_pc = "returned"

\* console_controller.join() returns, start_build_engine and main return.
join_console ==
    /\ main_pc = "join_console"
    /\ console_controller_join
    /\ main_pc' = "exited"
    /\ exit_status' = "zero"
    /\ UNCHANGED <<inputs, resolved, printed, engine>>

\* ------------------------------------------ bot_controller_thread, console
\* The joins of bot_controller_thread: every bot thread has ended.
bot_controller_thread ==
    /\ Alive
    /\ controller_pc = "running"
    /\ \A i \in Bots : bot[i].pc \in {"returned", "dead"}
    /\ controller_pc' = "returned"
    /\ UNCHANGED <<inputs, resolved, printed, main_pc, exit_status, pending, built,
                   has_error, job_q, done_q, console_q, bot, console_pc,
                   INSTALLER_LOCK, DOWNLOAD_LOCK, bot_status, spawned, stdout,
                   console_put, job_log>>

\* One pass of console_thread's loop: a line is written to sys.stdout, the
\* terminator ends the loop.
console_thread ==
    /\ Alive
    /\ console_pc = "running"
    /\ console_q # <<>>
    /\ console_q' = Tail(console_q)
    /\ IF Head(console_q) = Terminator
       THEN console_pc' = "returned" /\ UNCHANGED stdout
       ELSE stdout' = stdout + 1 /\ UNCHANGED console_pc
    /\ UNCHANGED <<inputs, resolved, printed, main_pc, exit_status, pending, built,
                   has_error, job_q, done_q, bot, controller_pc, INSTALLER_LOCK,
                   DOWNLOAD_LOCK, bot_status, spawned, console_put, job_log>>


\* ---------------------------------------------------------- bot_thread
\* What no bot step changes.
bot_frame == <<inputs, resolved, printed, main_pc, exit_status, pending, built,
               has_error, controller_pc, console_pc, bot_status, stdout, job_log>>

\* JobContext.__exit__ putting nothing on the queue when the body raised.
job_exit_silent(i, ok) ==
    IF ok
    THEN /\ done_q' = Append(done_q, bot[i].package)
         /\ bot' = [bot EXCEPT ![i] = no_job("get")]
    ELSE /\ UNCHANGED done_q
         /\ bot' = [bot EXCEPT ![i] = [no_job("dead") EXCEPT !.package = bot[i].package,
                                                              !.out = bot[i].out]]

\* JobContext.__exit__ without the test of exc_type: the package is put on the
\* queue however the body ended.
job_exit_always_package(i, ok) ==
    /\ done_q' = Append(done_q, bot[i].package)
    /\ bot' = [bot EXCEPT ![i] =
                  IF ok THEN no_job("get")
                  ELSE [no_job("dead") EXCEPT !.package = bot[i].package,
                                              !.out = bot[i].out]]

\* JobContext.__exit__ returning True: the exception of the body is swallowed
\* and the bot loops back to job_q.get after the None.
job_exit_swallows(i, ok) ==
    /\ done_q' = Append(done_q, IF ok THEN bot[i].package ELSE None)
    /\ bot' = [bot EXCEPT ![i] = no_job("get")]

\* JobContext.__exit__: the package on done_q when the body ended normally (the
\* bot loops back to job_q.get), None when it raised (the exception then ends
\* the bot thread; the package of its failed job and the artifact listing it
\* saw are kept as the record of that job).
job_exit(i, ok) ==
    /\ done_q' = Append(done_q, IF ok THEN bot[i].package ELSE None)
    /\ bot' = [bot EXCEPT ![i] =
                  IF ok THEN no_job("get")
                  ELSE [no_job("dead") EXCEPT !.package = bot[i].package,
                                              !.out = bot[i].out]]

\* A step inside the JobContext: on to `next`, or the exception leaves the job.
job_step(i, ok, next) ==
    IF ok
    THEN /\ bot' = [bot EXCEPT ![i].pc = next]
         /\ UNCHANGED done_q
    ELSE job_exit(i, FALSE)

\* Runner.exec: Runner.run starts the command as a child process, unless
\* donothing is set (the command is then only put on the console, Runner.echo).
Runner_exec == spawned' = IF args.donothing THEN spawned ELSE spawned \cup {"Runner.run"}

\* "with INSTALLER_LOCK:" entered without waiting for the lock.
acquire_installer_lock_no_wait(i) == INSTALLER_LOCK' = INSTALLER_LOCK \cup {i}

\* "with INSTALLER_LOCK:", __enter__
acquire_installer_lock(i) ==
    /\ INSTALLER_LOCK = {}
    /\ INSTALLER_LOCK' = {i}

\* A "with INSTALLER_LOCK:" block left with the lock still held.
keep_installer_lock(i) == UNCHANGED INSTALLER_LOCK

\* "with INSTALLER_LOCK:", __exit__
release_installer_lock(i) == INSTALLER_LOCK' = INSTALLER_LOCK \ {i}

\* "download_lock = DOWNLOAD_LOCK if args.getinparallel else NoOpLock()"
uses_DOWNLOAD_LOCK == args.getinparallel

\* "with download_lock:", __enter__ (NoOpLock.__enter__ does nothing)
acquire_download_lock(i) ==
    IF uses_DOWNLOAD_LOCK
    THEN DOWNLOAD_LOCK = {} /\ DOWNLOAD_LOCK' = {i}
    ELSE UNCHANGED DOWNLOAD_LOCK

\* "with download_lock:", __exit__
release_download_lock(i) ==
    IF uses_DOWNLOAD_LOCK
    THEN DOWNLOAD_LOCK' = DOWNLOAD_LOCK \ {i}
    ELSE UNCHANGED DOWNLOAD_LOCK

\* The two runner.exec calls before the loop (rm -rf and mkdir -p of the bot's
\* working directory); they are outside any JobContext.
bot_start(i) ==
    /\ Alive
    /\ bot[i].pc = "start"
    /\ Runner_exec
    /\ \E ok \in Outcomes :
          bot' = [bot EXCEPT ![i].pc = IF ok THEN "get" ELSE "dead"]
    /\ UNCHANGED <<bot_frame, job_q, done_q, console_q, console_put, INSTALLER_LOCK,
                   DOWNLOAD_LOCK>>

\* The answers of is_python_package: the category of the recipe, the name and
\* the text of the build script decide.
is_python_package == BOOLEAN

\* The answers of sbo_to_pypi: a name of the index (here that of the recipe),
\* or None when the index and the special cases have none.
sbo_to_pypi(name) == {Some(name), None}

\* package = job_q.get(True): return on None, else enter the JobContext and
\* take the pip branch (args.pipinstall and is_python_package(package), with
\* pypi = sbo_to_pypi(package)) or the build branch.
bot_get(i) ==
    /\ Alive
    /\ bot[i].pc = "get"
    /\ job_q # <<>>
    /\ job_q' = Tail(job_q)
    /\ IF Head(job_q) = None
       THEN bot' = [bot EXCEPT ![i] = no_job("returned")]
       ELSE \E py \in (IF args.pipinstall THEN is_python_package ELSE {FALSE}) :
            \E pypi \in (IF py THEN sbo_to_pypi(Head(job_q)[1]) ELSE {None}) :
               bot' = [bot EXCEPT ![i] =
                          [no_job(IF py THEN "pip_lock" ELSE "materialise")
                              EXCEPT !.package = Head(job_q), !.pypi = pypi]]
    /\ UNCHANGED <<bot_frame, done_q, console_q, console_put, spawned, INSTALLER_LOCK,
                   DOWNLOAD_LOCK>>

\* The pip branch: "with INSTALLER_LOCK:" is entered.
bot_pip_lock(i) ==
    /\ Alive
    /\ bot[i].pc = "pip_lock"
    /\ acquire_installer_lock(i)
    /\ bot' = [bot EXCEPT ![i].pc = "pip_install"]
    /\ UNCHANGED <<bot_frame, job_q, done_q, console_q, console_put, spawned,
                   DOWNLOAD_LOCK>>

\* runner.exec('%s install %s' % (pip_ver, pypi)) under the lock, then
\* "continue".
bot_pip_install(i) ==
    /\ Alive
    /\ bot[i].pc = "pip_install"
    /\ Runner_exec
    /\ release_installer_lock(i)
    /\ \E ok \in Outcomes : job_exit(i, ok)
    /\ UNCHANGED <<bot_frame, job_q, console_q, console_put, DOWNLOAD_LOCK>>

\* rm -rf and copytree of the working directory, then download_file_commands:
\* md5_sum runs md5sum (remote_popen, whatever args.donothing) on each of the
\* `files` source files of the recipe, n of them do not match their checksum.
bot_materialise(i) ==
    /\ Alive
    /\ bot[i].pc = "materialise"
    /\ \E ok \in Outcomes : \E files \in 0..MaxDownloads : \E n \in 0..files :
          /\ spawned' = spawned
                        \cup (IF args.donothing THEN {} ELSE {"Runner.run"})
                        \cup (IF ok /\ files > 0 THEN {"md5sum"} ELSE {})
          /\ IF ok
             THEN /\ bot' = [bot EXCEPT ![i].todo = n,
                                        ![i].pc = IF n > 0 THEN "mkdir_download"
                                                  ELSE "cp_sources"]
                  /\ UNCHANGED done_q
             ELSE job_exit(i, FALSE)
    /\ UNCHANGED <<bot_frame, job_q, console_q, console_put, INSTALLER_LOCK,
                   DOWNLOAD_LOCK>>

\* runner.exec("mkdir -p <download_dir>") of one download command.
bot_mkdir_download(i) ==
    /\ Alive
    /\ bot[i].pc = "mkdir_download"
    /\ Runner_exec
    /\ \E ok \in Outcomes : job_step(i, ok, "download_lock")
    /\ UNCHANGED <<bot_frame, job_q, console_q, console_put, INSTALLER_LOCK,
                   DOWNLOAD_LOCK>>

\* "with download_lock:" is entered.
bot_download_lock(i) ==
    /\ Alive
    /\ bot[i].pc = "download_lock"
    /\ acquire_download_lock(i)
    /\ bot' = [bot EXCEPT ![i].pc = "wget"]
    /\ UNCHANGED <<bot_frame, job_q, done_q, console_q, console_put, spawned,
                   INSTALLER_LOCK>>

\* What a wget that returned 0 can leave at the download location: a file with
\* the expected checksum or another one (bad).  Nothing is fetched, and nothing
\* compared, under donothing.
fetched == IF args.donothing THEN {FALSE} ELSE BOOLEAN

\* runner.exec(wget ...) inside "with download_lock:", then the next download
\* command or the copy of the sources; the checksum of the file is not read
\* again.
bot_wget(i) ==
    /\ Alive
    /\ bot[i].pc = "wget"
    /\ Runner_exec
    /\ release_download_lock(i)
    /\ \E ok \in Outcomes : \E bad \in fetched :
          IF ok
          THEN /\ bot' = [bot EXCEPT ![i].todo = @ - 1,
                                     ![i].mismatch = @ \/ bad,
                                     ![i].pc = IF bot[i].todo > 1 THEN "mkdir_download"
                                               ELSE "cp_sources"]
               /\ UNCHANGED done_q
          ELSE job_exit(i, FALSE)
    /\ UNCHANGED <<bot_frame, job_q, console_q, console_put, INSTALLER_LOCK>>

\* "if args.onlydownload: continue", not taken.
onlydownload_ignored == FALSE

\* "if args.onlydownload: continue"
onlydownload_continue == args.onlydownload

\* The cp of every source file into the working directory, then
\* "if args.onlydownload: continue".
bot_cp_sources(i) ==
    /\ Alive
    /\ bot[i].pc = "cp_sources"
    /\ Runner_exec
    /\ \E ok \in Outcomes :
          IF ok /\ ~onlydownload_continue
          THEN job_step(i, TRUE, "build")
          ELSE job_exit(i, ok)
    /\ UNCHANGED <<bot_frame, job_q, console_q, console_put, INSTALLER_LOCK,
                   DOWNLOAD_LOCK>>

\* The composite script is assembled, written (dd, the script on its standard
\* input) and run (sh).
bot_build(i) ==
    /\ Alive
    /\ bot[i].pc = "build"
    /\ Runner_exec
    /\ \E ok \in Outcomes :
          IF ok
          THEN /\ bot' = [bot EXCEPT ![i].pc = "install_lock",
                                     ![i].total_script = total_script(bot[i].package[1])]
               /\ UNCHANGED done_q
          ELSE job_exit(i, FALSE)
    /\ UNCHANGED <<bot_frame, job_q, console_q, console_put, INSTALLER_LOCK,
                   DOWNLOAD_LOCK>>

\* The install step: "with INSTALLER_LOCK:" is entered and built_location is
\* set to the placeholder; the artifact is looked up unless donothing is set.
bot_install_lock(i) ==
    /\ Alive
    /\ bot[i].pc = "install_lock"
    /\ acquire_installer_lock(i)
    /\ bot' = [bot EXCEPT ![i].pc = IF args.donothing THEN "installpkg" ELSE "locate"]
    /\ UNCHANGED <<bot_frame, job_q, done_q, console_q, console_put, spawned,
                   DOWNLOAD_LOCK>>

\* get_built_package_location returning the first path whenever ls lists any.
get_built_package_location_first(out) == out \in {"one", "many"}

\* get_built_package_location: TRUE when it returns a path ("if len(out) == 1:
\* return out[0]"), FALSE when it raises ValueError.  out is what
\* "ls /tmp/<name>-<VERSION>-*" lists: no path, one, or more than one.
get_built_package_location(out) == out = "one"

\* "built_location = get_built_package_location(package, info_dict)" under the
\* lock: ls is run (remote_popen); the ValueError leaves the "with" block,
\* which releases the lock, and the job.
bot_locate(i) ==
    /\ Alive
    /\ bot[i].pc = "locate"
    /\ spawned' = spawned \cup {"ls"}
    /\ \E out \in {"none", "one", "many"} :
          IF get_built_package_location(out)
          THEN /\ bot' = [bot EXCEPT ![i].pc = "installpkg", ![i].out = out]
               /\ UNCHANGED <<done_q, INSTALLER_LOCK>>
          ELSE /\ done_q' = Append(done_q, None)
               /\ bot' = [bot EXCEPT ![i] = [no_job("dead") EXCEPT
                                                !.package = bot[i].package,
                                                !.out = out]]
               /\ release_installer_lock(i)
    /\ UNCHANGED <<bot_frame, job_q, console_q, console_put, DOWNLOAD_LOCK>>

\* runner.exec("installpkg <built_location>") under the lock; the job ends.
bot_installpkg(i) ==
    /\ Alive
    /\ bot[i].pc = "installpkg"
    /\ Runner_exec
    /\ release_installer_lock(i)
    /\ \E ok \in Outcomes : job_exit(i, ok)
    /\ UNCHANGED <<bot_frame, job_q, console_q, console_put, DOWNLOAD_LOCK>>

\* The positions at which a bot has a command running (or echoes it).
Executing == {"start", "pip_install", "materialise", "mkdir_download", "wget",
              "cp_sources", "build", "installpkg"}

\* A line of a running command's output (output_thread), or the echo of the
\* command under donothing (Runner.echo), is put on the console queue.
output_thread(i) ==
    /\ Alive
    /\ bot[i].pc \in Executing
    /\ console_put < MaxConsole
    /\ console_q' = Append(console_q, Line)
    /\ console_put' = console_put + 1
    /\ UNCHANGED <<bot_frame, job_q, done_q, bot, spawned, INSTALLER_LOCK,
                   DOWNLOAD_LOCK>>

\* ---------------------------------------------------- the whole program
\* The recipe tree "1 requires 2" (3 requires nothing); REQUIRES="2 " splits
\* into the name and an empty string.
Chain == [n \in Names |-> IF n = 1 THEN <<2, EMPTY>> ELSE <<>>]

\* The recipe tree "1 requires 3 and 2", written in that order after %README%.
Fork == [n \in Names |-> IF n = 1 THEN <<README, 3, 2>> ELSE <<>>]

\* The runs of the build engine that are explored: recipe tree, recipe index,
\* targets and natively installed packages.
Scenarios ==
    { [tree |-> Chain, dirs |-> Names, packages |-> <<1>>, local |-> {}],
      [tree |-> Chain, dirs |-> Names, packages |-> <<1, 3>>, local |-> {}],
      [tree |-> Chain, dirs |-> Names, packages |-> <<2, 3>>, local |-> {}],
      [tree |-> Chain, dirs |-> Names, packages |-> <<1, 2>>, local |-> {2}],
      [tree |-> Fork, dirs |-> Names, packages |-> <<1>>, local |-> {}],
      [tree |-> Fork, dirs |-> Names, packages |-> <<1>>, local |-> {3}],
      [tree |-> Fork, dirs |-> Names, packages |-> <<1, 3>>, local |-> {3}],
      [tree |-> Chain, dirs |-> Names \ {3}, packages |-> <<1, 3>>, local |-> {}],
      [tree |-> Chain, dirs |-> Names \ {2}, packages |-> <<1>>, local |-> {}] }

\* afterpkg <packages> with every combination of the flags the engine reads.
Init ==
    /\ \E sc \in Scenarios :
          /\ REQUIRES = [n \in Names |-> IF n \in sc.dirs THEN sc.tree[n] ELSE <<>>]
          /\ package_dirs = sc.dirs
          /\ slack_pkg_local = sc.local
          /\ args \in {[Defaults EXCEPT !.packages = sc.packages, !.numthreads = n,
                                        !.getinparallel = g, !.pipinstall = pi,
                                        !.onlydownload = o, !.donothing = d] :
                          n \in 1..NumThreads, g \in BOOLEAN, pi \in BOOLEAN,
                          o \in BOOLEAN, d \in BOOLEAN}
    /\ pypi_local_py2 = {}
    /\ pypi_local_py3 = {}
    /\ script_files = NoScripts
    /\ InitRun

Next ==
    \/ build_packages
    \/ start_build_engine
    \/ wave
    \/ done_get
    \/ put_sentinels
    \/ exit_on_error
    \/ join_bots
    \/ put_terminator
    \/ join_console
    \/ bot_controller_thread
    \/ console_thread
    \/ \E i \in Bots : bot_start(i)
    \/ \E i \in Bots : bot_get(i)
    \/ \E i \in Bots : bot_pip_lock(i)
    \/ \E i \in Bots : bot_pip_install(i)
    \/ \E i \in Bots : bot_materialise(i)
    \/ \E i \in Bots : bot_mkdir_download(i)
    \/ \E i \in Bots : bot_download_lock(i)
    \/ \E i \in Bots : bot_wget(i)
    \/ \E i \in Bots : bot_cp_sources(i)
    \/ \E i \in Bots : bot_build(i)
    \/ \E i \in Bots : bot_install_lock(i)
    \/ \E i \in Bots : bot_locate(i)
    \/ \E i \in Bots : bot_installpkg(i)
    \/ \E i \in Bots : output_thread(i)

Spec == Init /\ [][Next]_vars

\* The steps of the main thread, of the bot thread bot_index, and of the two
\* threads start_build_engine starts.
main_thread ==
    \/ build_packages
    \/ start_build_engine
    \/ wave
    \/ done_get
    \/ put_sentinels
    \/ exit_on_error
    \/ join_bots
    \/ put_terminator
    \/ join_console

bot_thread(bot_index) ==
    /\ bot_index \in Bots
    /\ \/ bot_start(bot_index)
       \/ bot_get(bot_index)
       \/ bot_pip_lock(bot_index)
       \/ bot_pip_install(bot_index)
       \/ bot_materialise(bot_index)
       \/ bot_mkdir_download(bot_index)
       \/ bot_download_lock(bot_index)
       \/ bot_wget(bot_index)
       \/ bot_cp_sources(bot_index)
       \/ bot_build(bot_index)
       \/ bot_install_lock(bot_index)
       \/ bot_locate(bot_index)
       \/ bot_installpkg(bot_index)

\* Every thread that can take a step does so in the end: the threads are
\* scheduled by the operating system, every command started returns, and a
\* lock that is released is free for the bot that waits for it.
Fairness ==
    /\ WF_vars(main_thread)
    /\ WF_vars(bot_controller_thread)
    /\ WF_vars(console_thread)
    /\ \A bot_index \in 0..(NumThreads - 1) : WF_vars(bot_thread(bot_index))

\* afterpkg -p <packages> with one or two bots, with and without -g: a chain
\* with a second target, a fork, and a fork with an installed dependency.
InitLive ==
    /\ \E sc \in {[tree |-> Chain, packages |-> <<1, 3>>, local |-> {}],
                   [tree |-> Fork, packages |-> <<1>>, local |-> {}],
                   [tree |-> Fork, packages |-> <<1>>, local |-> {3}]} :
          /\ REQUIRES = sc.tree
          /\ package_dirs = Names
          /\ slack_pkg_local = sc.local
          /\ args \in {[Defaults EXCEPT !.packages = sc.packages, !.numthreads = n,
                                        !.getinparallel = g, !.pipinstall = TRUE] :
                          n \in 1..NumThreads, g \in BOOLEAN}
    /\ pypi_local_py2 = {}
    /\ pypi_local_py3 = {}
    /\ script_files = NoScripts
    /\ InitRun

SpecLive == InitLive /\ [][Next]_vars /\ Fairness

\* The recipe tree "1 requires 2, 2 requires 3".
Deep == [n \in Names |-> IF n = 1 THEN <<2>> ELSE IF n = 2 THEN <<3>> ELSE <<>>]

\* afterpkg -d 1 with one bot: every set of requires scripts, before and after
\* scripts for every package or for none, every combination of -b, -a and -r,
\* and 2 or 3 installed or not.
InitScript ==
    /\ REQUIRES \in {Deep, Fork}
    /\ package_dirs = Names
    /\ slack_pkg_local \in SUBSET {2, 3}
    /\ pypi_local_py2 = {}
    /\ pypi_local_py3 = {}
    /\ script_files \in [before : {{}, Names}, after : {{}, Names}, requires : SUBSET Names]
    /\ args \in {[Defaults EXCEPT !.packages = <<1>>, !.donothing = TRUE,
                                  !.before = b, !.after = a, !.requires = r] :
                    b \in BOOLEAN, a \in BOOLEAN, r \in BOOLEAN}
    /\ InitRun

\* The steps of a run under -d without -p: no command is run, so none fails,
\* no package goes to pip and no artifact is looked up.
NextDryRun ==
    \/ build_packages
    \/ start_build_engine
    \/ wave
    \/ done_get
    \/ put_sentinels
    \/ join_bots
    \/ put_terminator
    \/ join_console
    \/ bot_controller_thread
    \/ console_thread
    \/ \E i \in Bots : bot_start(i)
    \/ \E i \in Bots : bot_get(i)
    \/ \E i \in Bots : bot_materialise(i)
    \/ \E i \in Bots : bot_mkdir_download(i)
    \/ \E i \in Bots : bot_download_lock(i)
    \/ \E i \in Bots : bot_wget(i)
    \/ \E i \in Bots : bot_cp_sources(i)
    \/ \E i \in Bots : bot_build(i)
    \/ \E i \in Bots : bot_install_lock(i)
    \/ \E i \in Bots : bot_installpkg(i)
    \/ \E i \in Bots : output_thread(i)

SpecScript == InitScript /\ [][NextDryRun]_vars


\* -------------------------------------------------- engine properties
\* Some job taken by a bot ended in Failure (the bot put None on done_q).
JobFailed == \E i \in Bots : bot[i].pc = "dead" /\ bot[i].package # None

\* The packages this step puts on job_q.
Enqueued == Range(job_log') \ Range(job_log)

\* The sentinels put on job_q so far: those still queued and those a bot took.
SentinelsSent ==
    Cardinality({k \in 1..Len(job_q) : job_q[k] = None})
    + Cardinality({i \in Bots : bot[i].pc = "returned"})

Installing == {i \in Bots : bot[i].pc \in {"pip_install", "locate", "installpkg"}}
Fetching == {i \in Bots : bot[i].pc = "wget"}

C2_FailureExitsNonZero == JobFailed => exit_status # "zero"

\* C3: without getinparallel, at most one bot at a time runs a wget command.
C3_FetchesSerialised == ~args.getinparallel => Cardinality(Fetching) <= 1

\* C4: at most one bot at a time is inside an install step (pip install or
\* installpkg), donothing or not.
C4_InstallerMutex == Cardinality(Installing) <= 1

C4_Witness ==
    /\ args.donothing
    /\ \E i, j \in Bots :
          /\ bot[i].pc = "installpkg"
          /\ bot[j].pc \in {"pip_lock", "install_lock"}

\* C5: with one bot and no failed job, the packages put on job_q over the run
\* are the resolved list, in its order.
C5_JobsInResolvedOrder ==
    (args.numthreads = 1 /\ exit_status = "zero" /\ ~JobFailed) => job_log = resolved

C11_NoJobsAfterFailure ==
    [][has_error =>
          /\ Enqueued = {}
          /\ job_log' = job_log
          /\ main_pc # main_pc' =>
                \/ /\ main_pc = "sentinels"
                   /\ job_q' = job_q \o [k \in 1..args.numthreads |-> None]
                \/ job_q' = job_q]_vars

C11_Witness ==
    /\ has_error
    /\ pending # <<>>
    /\ main_pc = "exited"
    /\ SentinelsSent = args.numthreads
    /\ \E p \in Range(pending) : p \notin Range(job_log)

\* The lines waiting on console_q.
QueuedLines == Cardinality({k \in 1..Len(console_q) : console_q[k] = Line})

Failed == {bot[i].package[1] : i \in {j \in Bots : bot[j].pc = "dead" /\ bot[j].package # None}}

\* The dependencies of p the scheduler waits for, direct and transitive: those
\* reached along edges to packages the Oracle does not report installed.
RECURSIVE AwaitedWithin(_, _)
AwaitedWithin(S, n) ==
    IF n = 0 THEN S
    ELSE AwaitedWithin(
             S \cup UNION {{d \in Edges(q) : ~has_local_package(d)} : q \in S \cap package_dirs},
             n - 1)

Awaited(p) == AwaitedWithin({d \in Edges(p) : ~has_local_package(d)}, NumNames)

InJob == {i \in Bots : bot[i].package # None /\ bot[i].pc # "dead"}

\* The package jobs taken from job_q so far, and the signals put on done_q so
\* far (those waiting there and those the scheduler has read).
Dequeued == Len(job_log) - Cardinality({k \in 1..Len(job_q) : job_q[k] # None})
Signalled == Len(done_q) + Cardinality(built) + (IF has_error THEN 1 ELSE 0)
Failures ==
    Cardinality({k \in 1..Len(done_q) : done_q[k] = None}) + (IF has_error THEN 1 ELSE 0)

\* The signals and the jobs agree: one signal per job that ended, a Failure per
\* failed job, and a bot has a package in hand exactly between the entry and
\* the exit of a JobContext.
JobsFramed ==
    /\ Dequeued = Cardinality(InJob) + Signalled
    /\ Failures = Cardinality(Failed)
    /\ \A k \in 1..Len(done_q) :
          done_q[k] # None => done_q[k][1] \in Range(job_log) \ Failed
    /\ \A i \in Bots :
          /\ bot[i].pc \in {"start", "get", "returned"} => bot[i].package = None
          /\ bot[i].pc \notin {"start", "get", "returned", "dead"} => bot[i].package # None

\* C14: every package job taken by a bot puts exactly one signal on done_q, in
\* the step that ends the job: the package when the last step completed
\* (pip install, the copy of the sources under onlydownload, installpkg), None
\* when a step raised; every step of a job is taken with the job in hand.
C14_JobFraming ==
    [][/\ JobsFramed /\ JobsFramed'
       /\ \A i \in InJob :
             IF bot'[i].pc \in {"get", "dead"}
             THEN done_q' = Append(done_q, IF bot'[i].pc = "get" THEN bot[i].package
                                           ELSE None)
             ELSE bot'[i].package = bot[i].package /\ i \in InJob']_vars

C14_Witness ==
    /\ args.onlydownload
    /\ args.pipinstall
    /\ built # {}
    /\ Cardinality(Failed) = 2
    /\ exit_status = "nonzero"

\* Scenario S1 with two bots: 1 requires 2, the target is 1, nothing installed.
S1 ==
    /\ REQUIRES = Chain /\ package_dirs = Names /\ slack_pkg_local = {}
    /\ args.packages = <<1>> /\ args.numthreads = 2

\* The scheduling loop was left without a Failure.
LoopCompleted ==
    /\ ~has_error
    /\ \/ main_pc \in {"sentinels", "join_bots", "put_terminator", "join_console"}
       \/ exit_status = "zero"

\* The scheduler's step that forms a wave and writes both status files.
WaveStep == main_pc = "wave" /\ main_pc' = "done_get"

\* C15 as stated: the first publication reports the full resolved list, the
\* last one (of a run that ends) an empty pending list, and under S1 the
\* published pending values are <<2, 1>>, then <<1>>, then the empty list.
C15_Original ==
    /\ bot_status.built = Some({}) => bot_status.pending = Some(resolved)
    /\ exit_status = "zero" => bot_status.pending = Some(<<>>)
    /\ S1 => bot_status.pending \in {None, Some(<<2, 1>>), Some(<<1>>), Some(<<>>)}

\* C15 amended: the status files are written once per wave and at no other
\* step; where both writes succeed, the pending list published is the one left
\* after the packages of that wave were taken out; under S1 the published
\* values are <<1>>, then the empty list; the last publication of a loop that
\* completes without Failure is the empty list.
C15_PublishedAfterDispatch ==
    [][/\ (bot_status' # bot_status) => main_pc = "wave" /\ main_pc' # "wave"
       /\ WaveStep => bot_status' # bot_status
       /\ WaveStep =>
             /\ bot_status'.pending = Some(pending')
             /\ bot_status'.built = Some(built)
             /\ Range(pending') = Range(pending) \ Enqueued
             /\ Enqueued # {} => bot_status'.pending # Some(resolved)
       /\ (S1 /\ WaveStep) =>
             <<bot_status.pending, bot_status'.pending>>
                 \in {<<None, Some(<<1>>)>>, <<Some(<<1>>), Some(<<>>)>>}
       /\ LoopCompleted' => bot_status'.pending = Some(<<>>)]_vars

C15_Witness ==
    /\ S1
    /\ exit_status = "zero"
    /\ built = {1, 2}
    /\ bot_status = [pending |-> Some(<<>>), built |-> Some({2})]

\* C16: a job one of whose fetched files still has a checksum other than the
\* expected one, after a fetch command that completed successfully, runs
\* neither its build step nor its install step.
C16_DownloadMismatchFails ==
    \A i \in Bots :
        bot[i].mismatch => bot[i].pc \notin {"build", "install_lock", "locate", "installpkg"}

\* C17: a job is in the pip branch (waiting for INSTALLER_LOCK or running pip
\* install under it) only if pipinstall is set and sbo_to_pypi gave an index
\* name for its package; a package mapped to None is never passed to pip.
C17_PipOnlyWhenMapped ==
    \A i \in Bots :
        bot[i].pc \in {"pip_lock", "pip_install"} =>
            args.pipinstall /\ bot[i].pypi # None

\* C18: with donothing set, neither the scheduler nor a bot starts a child
\* process at any point of the run, and a bot inside an install step holds
\* INSTALLER_LOCK.
C18_DryRunSpawnsNothing ==
    args.donothing =>
        /\ spawned = {}
        /\ \A i \in Bots :
              bot[i].pc \in {"pip_install", "installpkg"} => INSTALLER_LOCK = {i}

\* The bots whose artifact lookup listed no path, or more than one.
ArtifactMissing == {i \in Bots : bot[i].out \in {"none", "many"}}

\* C19: without donothing, a job whose artifact lookup lists no path or more
\* than one ends in Failure in the step of the lookup (None is put on done_q
\* and INSTALLER_LOCK is released), installpkg is run only after a lookup that
\* listed exactly one path, and the package of such a job is never in built
\* nor on done_q.
C19_ArtifactMissingFails ==
    [][/\ \A i \in ArtifactMissing' \ ArtifactMissing :
             /\ bot[i].pc = "locate"
             /\ bot'[i].pc = "dead"
             /\ bot'[i].package = bot[i].package
             /\ done_q' = Append(done_q, None)
             /\ INSTALLER_LOCK' = {}
       /\ \A i \in ArtifactMissing' :
             /\ bot'[i].pc = "dead"
             /\ bot'[i].package[1] \notin built'
             /\ ~InSeq(bot'[i].package, done_q')
       /\ \A i \in Bots :
             (~args.donothing /\ bot'[i].pc = "installpkg") => bot'[i].out = "one"]_vars

C19_Witness ==
    /\ ~args.donothing
    /\ \E i, j \in Bots :
          /\ bot[i].out = "many" /\ bot[i].pc = "dead"
          /\ bot[j].out = "one" /\ bot[j].pc = "installpkg"
    /\ has_error

\* The positions of the build step and of the install step.
BuildOrInstall == {"build", "install_lock", "locate", "installpkg"}

\* C20: with onlydownload set no bot is ever in the build step or the install
\* step (no composite script, no artifact lookup, no installpkg); a job leaves
\* the copy of its sources either with Success (its name on done_q) or because
\* the copy raised; and a run that ends with status 0 and no failed job has put
\* every package of the resolved list on job_q, and every such job has ended.
C20_DownloadOnly ==
    [][args.onlydownload =>
          /\ \A i \in Bots :
                /\ bot'[i].pc \notin BuildOrInstall
                /\ (bot[i].pc = "cp_sources" /\ bot'[i].pc # "cp_sources") =>
                      \/ /\ bot'[i].pc = "get"
                         /\ done_q' = Append(done_q, bot[i].package)
                      \/ /\ bot'[i].pc = "dead"
                         /\ done_q' = Append(done_q, None)
          /\ "ls" \notin spawned'
          /\ (exit_status' = "zero" /\ Failed' = {}) =>
                /\ InJob' = {}
                /\ \A k \in 1..Len(job_q') : job_q'[k] = None
                /\ Range(job_log') = Range(resolved)
                /\ pending' = <<>>]_vars

C20_Witness ==
    /\ args.onlydownload
    /\ ~args.pipinstall
    /\ ~args.donothing
    /\ exit_status = "zero"
    /\ Len(resolved) = 3
    /\ Failed = {}
    /\ Range(job_log) = Range(resolved)
    /\ "md5sum" \in spawned

\* ------------------------------------------------------ oracle properties
\* The names has_local_package may report installed under the flags: the
\* natively installed ones, and unless novirtual is set the "python-" names of
\* the 2.x pip listing unless nopip2 is set, and the "python3-" names of the 3.x
\* pip listing unless nopip3 is set.
Gated ==
    slack_pkg_local
    \cup {n \in Names : /\ ~args.novirtual /\ ~args.nopip2
                        /\ startswith_python(n) /\ n \in pypi_local_py2}
    \cup {n \in Names : /\ ~args.novirtual /\ ~args.nopip3
                        /\ startswith_python3(n) /\ n \in pypi_local_py3}

\* C21: with nopip2 set has_local_package never answers true because of the
\* 2.x pip listing, with nopip3 set never because of the 3.x pip listing, and
\* novirtual answers as nopip2 and nopip3 together (only a natively installed
\* package is reported); so a dependency is left out of the resolved list only
\* if the flags allow it to count as installed.
C21_OracleGating ==
    ResolverReturned =>
        /\ \A n \in Names : has_local_package(n) => n \in Gated
        /\ \A d \in Edges(3) : d \notin Range(resolved) => d \in Gated

\* The build engine was started (start_build_engine went past its set-up).
EngineStarted == console_pc # "unstarted"

\* C22: a write_bot_status call that fails does not end the run: the scheduler
\* is never ended by it, and every run of the engine that ends has put the N
\* sentinels on job_q first.
C22_StatusSinkBestEffort ==
    /\ main_pc # "raised"
    /\ (EngineStarted /\ exit_status # "running") => SentinelsSent = args.numthreads

\* The targets of the command line that have no recipe.
UnknownTargets == Range(args.packages) \ package_dirs

\* C23: once build_packages has resolved the targets, either some target has
\* no recipe, and then the process has exited with a non-zero status with
\* nothing resolved, no thread started, no child process and nothing on job_q;
\* or every target has a recipe, and then resolution returned a list that holds
\* every target and no name without a recipe: a REQUIRES name without a recipe
\* is left out and ends nothing.
C23_UnknownPackage ==
    main_pc # "build_packages" =>
        IF UnknownTargets # {}
        THEN /\ main_pc = "exited" /\ exit_status = "nonzero"
             /\ resolved = <<>> /\ printed = <<>>
             /\ ~EngineStarted /\ controller_pc = "unstarted" /\ bot = NoBots
             /\ spawned = {} /\ job_q = <<>> /\ job_log = <<>>
        ELSE /\ EngineStarted \/ main_pc = "start_build_engine"
             /\ Range(args.packages) \subseteq Range(resolved)
             /\ Range(resolved) \subseteq package_dirs
             /\ Range(job_log) \subseteq package_dirs

\* The second target has no recipe; the first one has.
C23_Witness ==
    /\ UnknownTargets # {}
    /\ args.packages[1] \in package_dirs
    /\ main_pc = "exited"
    /\ exit_status = "nonzero"

\* The scheduler's step that forms a wave, whether or not the status files
\* could be written after it.
FormsWave == main_pc = "wave" /\ main_pc' # "wave"

\* The dependencies of p that are in the resolved list.
DepsInR(p) == Edges(p) \cap Range(resolved)

\* C24: the packages are put on job_q by the wave step alone, all at once;
\* the wave holds every package of pending whose dependencies within the
\* resolved list are all in built, the packages of a wave are put in the order
\* they have in the resolved list, and each of them has every dependency the
\* Oracle does not report installed in built (with "1 requires 3 and 2" and
\* nothing installed: 3 and 2 in one wave, 1 only once both are in built).
C24_MaximalWaves ==
    [][/\ job_log' # job_log => FormsWave
       /\ FormsWave =>
             /\ \A p \in Range(pending) : DepsInR(p) \subseteq built => p \in Enqueued
             /\ Enqueued \subseteq Range(pending)
             /\ job_log' = job_log \o SelectSeq(resolved, LAMBDA p : p \in Enqueued)
             /\ job_q' = job_q \o [k \in 1..(Len(job_log') - Len(job_log)) |->
                                      Some(job_log'[Len(job_log) + k])]
             /\ \A p \in Enqueued : Range(kept_deps(p, TRUE)) \subseteq built
             /\ Range(pending') = Range(pending) \ Enqueued]_vars

C24_Witness ==
    /\ REQUIRES = Fork /\ slack_pkg_local = {} /\ args.packages = <<1>>
    /\ args.numthreads = 2
    /\ job_log = <<3, 2, 1>>
    /\ built = {2, 3}
    /\ main_pc = "done_get"
    /\ \E i \in Bots : bot[i].package = Some(1)

\* The sentinels waiting on job_q, and the bots that took one.
QueuedSentinels == {k \in 1..Len(job_q) : job_q[k] = None}
Returned == {i \in Bots : bot[i].pc = "returned"}

\* No bot thread was ended by an exception, in a job or at start-up.
NoBotDied == \A i \in Bots : bot[i].pc # "dead"

\* C25: sentinels are put on job_q by one step only, the one that follows the
\* scheduling loop, which puts exactly N of them; no package is ever behind a
\* sentinel on job_q; a bot returns only by taking a sentinel from the head of
\* job_q, puts nothing on done_q in that step and takes nothing afterwards; and
\* when a run in which no bot died ends with status 0, every bot has returned
\* (each took one sentinel) and job_q is empty.
C25_SentinelProtocol ==
    [][/\ Cardinality(QueuedSentinels') > Cardinality(QueuedSentinels) =>
             /\ main_pc = "sentinels" /\ main_pc' # "sentinels"
             /\ job_q' = job_q \o [k \in 1..args.numthreads |-> None]
             /\ SentinelsSent = 0
       /\ SentinelsSent' \in {0, args.numthreads}
       /\ \A k \in QueuedSentinels' : \A l \in k..Len(job_q') : job_q'[l] = None
       /\ \A i \in Returned' \ Returned :
             /\ bot[i].pc = "get"
             /\ job_q # <<>> /\ Head(job_q) = None /\ job_q' = Tail(job_q)
             /\ done_q' = done_q
       /\ \A i \in Returned : bot'[i] = bot[i]
       /\ (Returned # {} \/ QueuedSentinels # {}) => job_log' = job_log
       /\ (exit_status' = "zero" /\ NoBotDied') =>
             /\ Returned' = Bots
             /\ Cardinality(Returned') = args.numthreads
             /\ job_q' = <<>>]_vars

C25_Witness ==
    /\ exit_status = "zero"
    /\ NoBotDied
    /\ args.numthreads = 2
    /\ Returned = Bots
    /\ job_q = <<>>
    /\ Len(job_log) = 3

\* ------------------------------------------------------ script properties
\* The REQUIRES names of p that have a recipe, installed or not, as written.
AllSiblings(p) == SelectSeq(REQUIRES[p], LAMBDA d : d \in package_dirs)

\* The depth-first post-order walk from p over every dependency, installed or
\* not, each package at its first occurrence.
RECURSIVE WalkAll(_)
WalkAll(names) ==
    IF names = <<>> THEN <<>>
    ELSE WalkAll(AllSiblings(Head(names))) \o <<Head(names)>> \o WalkAll(Tail(names))

Closure(p) == SelectSeq(Dedup(WalkAll(<<p>>)), LAMBDA d : d # p)

\* The script of a job on p, piece by piece: a hook script is there when the
\* file exists and the option of its kind is not set.
Composite(p) ==
    <<shebang>>
    \o (IF p \in script_files.before /\ ~args.before
        THEN <<file("before.sh", p)>> ELSE <<>>)
    \o LET deps == SelectSeq(Closure(p),
                             LAMBDA d : d \in script_files.requires /\ ~args.requires)
       IN  [k \in 1..Len(deps) |-> file("requires.sh", deps[k])]
    \o <<file("SlackBuild", p)>>
    \o (IF p \in script_files.after /\ ~args.after
        THEN <<file("after.sh", p)>> ELSE <<>>)

\* The bots that have assembled the script of the job in hand.
Scripted == {i \in Bots : bot[i].pc \in {"install_lock", "locate", "installpkg"}}

\* C26: the script a bot assembles for a job on p is the shebang line, p's
\* before script if any, the requires scripts of the packages p depends on,
\* directly or not, installed or not, in post-order and without p's own, p's
\* SlackBuild, p's after script if any; a kind whose option is set adds
\* nothing.
C26_CompositeScript ==
    \A i \in Scripted :
        LET p == bot[i].package[1]
            s == bot[i].total_script
        IN  /\ s = Composite(p)
            /\ file("requires.sh", p) \notin Range(s)
            /\ {s[k][2] : k \in {l \in 2..Len(s) : s[l][1] = "requires.sh"}}
                   = {d \in Reach(Edges(p)) \ {p} :
                         d \in script_files.requires /\ ~args.requires}

C26_Witness ==
    \E i \in Scripted :
        /\ REQUIRES = Deep
        /\ slack_pkg_local = {2, 3}
        /\ bot[i].total_script
               = <<shebang, file("before.sh", 1), file("requires.sh", 3),
                   file("requires.sh", 2), file("SlackBuild", 1)>>
        /\ args.after /\ script_files.after = Names

\* The packages put on job_q so far.
EnqueuedSoFar == Range(job_log)

SomethingFailed == ~NoBotDied \/ main_pc = "raised"

\* The signals of success given so far: read by the scheduler or on done_q.
Succeeded == built \cup {done_q[k][1] : k \in {l \in 1..Len(done_q) : done_q[l] # None}}

\* The scheduler returned after every package of the resolved list was put on
\* job_q, taken by a bot and completed with Success.
AllBuilt ==
    /\ exit_status = "zero"
    /\ EnqueuedSoFar = Range(resolved)
    /\ job_q = <<>>
    /\ InJob = {}
    /\ Succeeded = Range(resolved)

\* The scheduler waits on done_q while no signal is there and none is to come.
WaitsInVain ==
    /\ main_pc = "done_get"
    /\ done_q = <<>>
    /\ InJob = {}
    /\ \A k \in 1..Len(job_q) : job_q[k] = None

\* C28: a run of the engine (every target has a recipe) in which nothing fails
\* ends with the scheduler returning after every package of the resolved list
\* was put on job_q, taken by a bot and completed with Success; until
\* something fails, the scheduler never waits on done_q with no job left to
\* signal.
C28_AllBuiltInTheEnd ==
    /\ <>(UnknownTargets # {} \/ SomethingFailed \/ AllBuilt)
    /\ [](SomethingFailed \/ ~WaitsInVain)

C28_Witness ==
    /\ AllBuilt
    /\ ~SomethingFailed
    /\ args.numthreads = 2
    /\ Len(resolved) = 3
    /\ built # Range(resolved)

\* C29: every run ends, whatever the commands return: the process exits with
\* some status, and the scheduler never waits for ever on done_q, also when
\* the commands a bot runs before it takes its first job fail.
C29_EveryRunTerminates == <>(exit_status # "running")

\* ------------------------------------------------------- lock properties
\* The bots whose thread has ended, and those outside any "with" block of a
\* lock.
Ended == {i \in Bots : bot[i].pc \in {"dead", "returned"}}
OutsideLocks == {i \in Bots : bot[i].pc \notin {"pip_install", "locate", "installpkg", "wget"}}

\* C30: INSTALLER_LOCK is held exactly by the bot that is inside an install
\* step (pip install, the artifact lookup, installpkg) and DOWNLOAD_LOCK
\* exactly by the bot inside a fetch that uses it; a bot whose job failed under
\* a lock, and whose Failure signal is therefore on done_q or read, holds no
\* lock, nor does any bot that is outside those steps: a bot that waits for a
\* lock waits for a bot that is still running its command.
C30_LocksReleased ==
    /\ INSTALLER_LOCK = Installing
    /\ DOWNLOAD_LOCK = (IF uses_DOWNLOAD_LOCK THEN Fetching ELSE {})
    /\ (INSTALLER_LOCK \cup DOWNLOAD_LOCK) \cap (Ended \cup OutsideLocks) = {}

\* A job failed at installpkg, under the lock, and another bot has taken the
\* lock since; a fetch under DOWNLOAD_LOCK goes on.
C30_Witness ==
    \E i, j \in Bots :
        /\ bot[i].pc = "dead" /\ bot[i].out = "one"
        /\ bot[j].pc = "pip_install"
        /\ INSTALLER_LOCK = {j}
        /\ args.getinparallel

\* ------------------------------------------------- a failed bot stops
\* The bots ended by the exception of a failed job.
Stopped == {i \in Bots : bot[i].pc = "dead"}

\* C31: the bot that puts the Failure signal (None) on done_q is dead from
\* that step on; a dead bot never takes another step; and every item that
\* leaves job_q, package or sentinel, is taken by a bot that was waiting in
\* job_q.get, so never by a dead one.
C31_FailedBotStops ==
    [][/\ \A i \in Bots :
             /\ (bot'[i] # bot[i] /\ i \in InJob /\ done_q' = Append(done_q, None))
                   => i \in Stopped'
             /\ i \in Stopped => bot'[i] = bot[i]
       /\ job_q' # job_q /\ Len(job_q') <= Len(job_q)
             => \E j \in Bots \ Stopped :
                   /\ bot[j].pc = "get" /\ bot'[j].pc # "get"
                   /\ job_q' = Tail(job_q)
                   /\ \A i \in Bots \ {j} : bot'[i] = bot[i]]_vars

\* One bot failed a job and the other has taken its sentinel and returned; the
\* failed bot's sentinel stays on job_q.
C31_Witness ==
    \E i, j \in Bots :
        /\ bot[i].pc = "dead" /\ bot[i].package # None
        /\ bot[j].pc = "returned"
        /\ job_q = <<None>>

=============================================================================
